---------------------------- MODULE Spec2Model ----------------------------
(***************************************************************************)
(* Air-Traffic-Analyzer, src/app.py: the four JSON endpoints of the        *)
(* aggregation core and the flight_snapshots table they share.             *)
(*                                                                         *)
(*   api_flights_live      parse + region/altitude/callsign filter of one  *)
(*                         feed snapshot, then INSERT of flights[:100]     *)
(*   api_stats_summary     two SELECTs on flight_snapshots: the 10-minute  *)
(*                         count and the per-hour buckets                  *)
(*   api_airport_weather   airport lookup, weather fetch, risk mapping     *)
(*   api_airport_traffic   airport lookup, feed fetch, haversine buckets   *)
(*                                                                         *)
(* Representation.                                                         *)
(*   - A JSON value that may be null is <<>> (null) or <<v>> (present).    *)
(*   - A Python str is a sequence of one-character strings.                *)
(*   - A latitude or longitude is a binary fixed-point number <<hi, lo>>   *)
(*     standing for hi / 2^20 + lo / 2^50 degrees, 0 <= lo < 2^30.  Every  *)
(*     IEEE double in [4, 128) is such a number, exactly, so the doubles   *)
(*     the feed holds are compared here as the code compares them.         *)
(*   - haversine() is the table of its results, computed by running lines  *)
(*     385-392 on each (airport, position) pair the feeds below hold.  A   *)
(*     distance is kept in units of 10^-5 km, rounded down; no entry lies  *)
(*     within one unit of 30 km or 100 km without being exactly on it, so  *)
(*     every comparison the code makes on dist has the same outcome here.  *)
(*   - Every request runs inside @login_required with a session, and the   *)
(*     external fetches return (an HTTP failure raises before any state    *)
(*     of the core changes).                                               *)
(***************************************************************************)
EXTENDS Integers, Sequences, FiniteSets, TLC

VARIABLES
  flight_snapshots,  \* the rows of table flight_snapshots, in rowid order
  resp,              \* the response of the request that completed last
  summary,           \* api_stats_summary in flight: its locals between its two SELECTs
  cycles             \* ingestion cycles (api_flights_live calls) so far

vars == <<flight_snapshots, resp, summary, cycles>>

-----------------------------------------------------------------------------
\* Bounds of the model.

\* Ingestion cycles explored from the initial table.
MaxCycles == 2

-----------------------------------------------------------------------------
\* Program constants.

\* flights[:100]
SNAPSHOT_SAMPLE == 100
\* now - 600
RECENT_WINDOW == 600
\* count_recent < 50
LOW_BELOW == 50
\* count_recent < 150
MEDIUM_BELOW == 150
\* timestamp/3600
HOUR_SECONDS == 3600
\* LIMIT 24
HOUR_LIMIT == 24
\* dist <= 100
TRAFFIC_RADIUS_KM == 100
\* dist > 30, dist < 30
NEAR_KM == 30
\* wind > 15
WIND_HIGH == 15
\* request.args.get("min_alt", 0)
DEFAULT_MIN_ALT == 0
\* request.args.get("max_alt", 50000)
DEFAULT_MAX_ALT == 50000

-----------------------------------------------------------------------------
\* Python values.

Null == <<>>

Some(v) == <<v>>

\* x or 0, for a JSON number or null
OrZero(x) == IF x = Null THEN 0 ELSE IF x[1] = 0 THEN 0 ELSE x[1]

\* x or "", for a JSON string or null
OrEmpty(x) == IF x = Null THEN <<>> ELSE x[1]

UpperCase ==
  <<"A", "B", "C", "D", "E", "F", "G", "H", "I", "J", "K", "L", "M",
    "N", "O", "P", "Q", "R", "S", "T", "U", "V", "W", "X", "Y", "Z">>

LowerCase ==
  <<"a", "b", "c", "d", "e", "f", "g", "h", "i", "j", "k", "l", "m",
    "n", "o", "p", "q", "r", "s", "t", "u", "v", "w", "x", "y", "z">>

UpperChar(c) ==
  IF \E i \in DOMAIN LowerCase : LowerCase[i] = c
  THEN UpperCase[CHOOSE i \in DOMAIN LowerCase : LowerCase[i] = c]
  ELSE c

LowerChar(c) ==
  IF \E i \in DOMAIN UpperCase : UpperCase[i] = c
  THEN LowerCase[CHOOSE i \in DOMAIN UpperCase : UpperCase[i] = c]
  ELSE c

\* str.upper()
Upper(str) == [i \in DOMAIN str |-> UpperChar(str[i])]

\* str.lower()
Lower(str) == [i \in DOMAIN str |-> LowerChar(str[i])]

RECURSIVE LStrip(_)
LStrip(str) ==
  IF str # <<>> /\ Head(str) = " " THEN LStrip(Tail(str)) ELSE str

RECURSIVE RStrip(_)
RStrip(str) ==
  IF str # <<>> /\ str[Len(str)] = " "
  THEN RStrip(SubSeq(str, 1, Len(str) - 1))
  ELSE str

\* str.strip()
Strip(str) == RStrip(LStrip(str))

\* needle in hay
Contains(needle, hay) ==
  \E i \in 0..(Len(hay) - Len(needle)) :
    SubSeq(hay, i + 1, i + Len(needle)) = needle

\* a <= b on coordinates
FxLeq(a, b) == a[1] < b[1] \/ (a[1] = b[1] /\ a[2] <= b[2])

\* d whole degrees
Deg(d) == <<d * (2 ^ 20), 0>>

\* d kilometres, in the unit of the haversine table
Km(d) == d * (10 ^ 5)

-----------------------------------------------------------------------------
\* Configuration and reference data.

REGION_BOUNDS ==
  [min_lat |-> Deg(5), max_lat |-> Deg(35), min_lon |-> Deg(68), max_lon |-> Deg(97)]

\* Positions the feeds below report, as fixed-point degrees.  BOM_30, BOM_100
\* and DEL_30 are doubles for which haversine() returns exactly 30.0 or 100.0;
\* the OUT_ positions are the doubles next to a region bound, outside it.

\* BOM_10: lat 19.18, lon 72.87
BOM_10 == [lat |-> <<20111687, 730144440>>, lon |-> <<76409733, 128849024>>]
\* BOM_30: lat 19.35922683074152, lon 72.85546875
BOM_30 == [lat |-> <<20299620, 679970224>>, lon |-> <<76394496, 0>>]
\* BOM_40: lat 19.45, lon 72.87
BOM_40 == [lat |-> <<20394803, 214748364>>, lon |-> <<76409733, 128849024>>]
\* BOM_100: lat 19.985720561448037, lon 72.78515625
BOM_100 == [lat |-> <<20956546, 991537156>>, lon |-> <<76320768, 0>>]
\* BOM_101: lat 20.0, lon 72.87
BOM_101 == [lat |-> <<20971520, 0>>, lon |-> <<76409733, 128849024>>]
\* DEL_10: lat 28.6, lon 77.2
DEL_10 == [lat |-> <<29989273, 644245096>>, lon |-> <<80950067, 214748368>>]
\* DEL_30: lat 28.82591791465421, lon 77.107421875
DEL_30 == [lat |-> <<30226165, 755137340>>, lon |-> <<80852992, 0>>]
\* SW_CORNER: lat 5.0, lon 68.0
SW_CORNER == [lat |-> <<5242880, 0>>, lon |-> <<71303168, 0>>]
\* NE_CORNER: lat 35.0, lon 97.0
NE_CORNER == [lat |-> <<36700160, 0>>, lon |-> <<101711872, 0>>]
\* OUT_N: lat 35.00000000000001, lon 80.0
OUT_N == [lat |-> <<36700160, 8>>, lon |-> <<83886080, 0>>]
\* OUT_S: lat 4.999999999999999, lon 80.0
OUT_S == [lat |-> <<5242879, 1073741823>>, lon |-> <<83886080, 0>>]
\* OUT_W: lat 20.0, lon 67.99999999999999
OUT_W == [lat |-> <<20971520, 0>>, lon |-> <<71303167, 1073741808>>]
\* OUT_E: lat 20.0, lon 97.00000000000001
OUT_E == [lat |-> <<20971520, 0>>, lon |-> <<101711872, 16>>]

\* Airport coordinates (sample_airports), as fixed-point degrees.
\* BOM: lat 19.0896, lon 72.8656
BOM_AT == [lat |-> <<20016896, 439804652>>, lon |-> <<76405119, 414034848>>]
\* DEL: lat 28.5562, lon 77.1
DEL_AT == [lat |-> <<29943345, 1042818060>>, lon |-> <<80845209, 644245088>>]
\* BLR: lat 13.1989, lon 77.7063
BLR_AT == [lat |-> <<13840049, 822915734>>, lon |-> <<81480961, 245672128>>]
\* HYD: lat 17.2403, lon 78.4294
HYD_AT == [lat |-> <<18077764, 872737356>>, lon |-> <<82239186, 573807632>>]

HaversineTable ==
  {
    [ap |-> BOM_AT, at |-> BOM_10, d |-> 1006264],  \* 10.062643121186872 km
    [ap |-> BOM_AT, at |-> BOM_30, d |-> 3000000],  \* 30.0 km
    [ap |-> BOM_AT, at |-> BOM_40, d |-> 4007731],  \* 40.07731277906066 km
    [ap |-> BOM_AT, at |-> BOM_100, d |-> 10000000],  \* 100.0 km
    [ap |-> BOM_AT, at |-> BOM_101, d |-> 10123291],  \* 101.23291115976279 km
    [ap |-> BOM_AT, at |-> DEL_10, d |-> 114539356],  \* 1145.3935687522182 km
    [ap |-> BOM_AT, at |-> DEL_30, d |-> 116496697],  \* 1164.9669701317143 km
    [ap |-> BOM_AT, at |-> SW_CORNER, d |-> 165314169],  \* 1653.1416993234118 km
    [ap |-> BOM_AT, at |-> NE_CORNER, d |-> 295960746],  \* 2959.607462639304 km
    [ap |-> BOM_AT, at |-> OUT_N, d |-> 190348884],  \* 1903.4888490260246 km
    [ap |-> BOM_AT, at |-> OUT_S, d |-> 174727511],  \* 1747.2751185755117 km
    [ap |-> BOM_AT, at |-> OUT_W, d |-> 51978455],  \* 519.7845591206673 km
    [ap |-> BOM_AT, at |-> OUT_E, d |-> 252885771],  \* 2528.857718033566 km
    [ap |-> DEL_AT, at |-> BOM_10, d |-> 112753126],  \* 1127.5312663910242 km
    [ap |-> DEL_AT, at |-> BOM_30, d |-> 110959567],  \* 1109.5956742517114 km
    [ap |-> DEL_AT, at |-> BOM_40, d |-> 109967027],  \* 1099.6702771080313 km
    [ap |-> DEL_AT, at |-> BOM_100, d |-> 104828872],  \* 1048.2887277745704 km
    [ap |-> DEL_AT, at |-> BOM_101, d |-> 104328367],  \* 1043.2836759993072 km
    [ap |-> DEL_AT, at |-> DEL_10, d |-> 1091195],  \* 10.9119519529606 km
    [ap |-> DEL_AT, at |-> DEL_30, d |-> 3000000],  \* 30.0 km
    [ap |-> DEL_AT, at |-> SW_CORNER, d |-> 278969003],  \* 2789.6900394313943 km
    [ap |-> DEL_AT, at |-> NE_CORNER, d |-> 200844207],  \* 2008.442079117255 km
    [ap |-> DEL_AT, at |-> OUT_N, d |-> 76705140],  \* 767.0514025763805 km
    [ap |-> DEL_AT, at |-> OUT_S, d |-> 263713646],  \* 2637.1364667928756 km
    [ap |-> DEL_AT, at |-> OUT_W, d |-> 132405184],  \* 1324.0518440227 km
    [ap |-> DEL_AT, at |-> OUT_E, d |-> 222589207],  \* 2225.8920763037845 km
    [ap |-> BLR_AT, at |-> BOM_10, d |-> 84185312],  \* 841.8531250559083 km
    [ap |-> BLR_AT, at |-> BOM_30, d |-> 85846492],  \* 858.4649216733058 km
    [ap |-> BLR_AT, at |-> BOM_40, d |-> 86553856],  \* 865.5385678007344 km
    [ap |-> BLR_AT, at |-> BOM_100, d |-> 91875346],  \* 918.7534628076047 km
    [ap |-> BLR_AT, at |-> BOM_101, d |-> 91493122],  \* 914.9312242830699 km
    [ap |-> BLR_AT, at |-> DEL_10, d |-> 171332460],  \* 1713.324606666051 km
    [ap |-> BLR_AT, at |-> DEL_30, d |-> 173874674],  \* 1738.746742890521 km
    [ap |-> BLR_AT, at |-> SW_CORNER, d |-> 140168867],  \* 1401.688677667516 km
    [ap |-> BLR_AT, at |-> NE_CORNER, d |-> 310339226],  \* 3103.3922697744374 km
    [ap |-> BLR_AT, at |-> OUT_N, d |-> 243510949],  \* 2435.1094973618287 km
    [ap |-> BLR_AT, at |-> OUT_S, d |-> 94575837],  \* 945.7583704793835 km
    [ap |-> BLR_AT, at |-> OUT_W, d |-> 128058988],  \* 1280.5898850343567 km
    [ap |-> BLR_AT, at |-> OUT_E, d |-> 218843812],  \* 2188.438121806772 km
    [ap |-> HYD_AT, at |-> BOM_10, d |-> 62551845],  \* 625.5184593409442 km
    [ap |-> HYD_AT, at |-> BOM_30, d |-> 63380244],  \* 633.8024401833055 km
    [ap |-> HYD_AT, at |-> BOM_40, d |-> 63606273],  \* 636.0627386789716 km
    [ap |-> HYD_AT, at |-> BOM_100, d |-> 66846303],  \* 668.4630342336496 km
    [ap |-> HYD_AT, at |-> BOM_101, d |-> 66123652],  \* 661.2365295417912 km
    [ap |-> HYD_AT, at |-> DEL_10, d |-> 126936935],  \* 1269.3693569730754 km
    [ap |-> HYD_AT, at |-> DEL_30, d |-> 129530792],  \* 1295.3079271519189 km
    [ap |-> HYD_AT, at |-> SW_CORNER, d |-> 177248765],  \* 1772.4876558681538 km
    [ap |-> HYD_AT, at |-> NE_CORNER, d |-> 269885217],  \* 2698.852175053736 km
    [ap |-> HYD_AT, at |-> OUT_N, d |-> 198091836],  \* 1980.918365117874 km
    [ap |-> HYD_AT, at |-> OUT_S, d |-> 137175910],  \* 1371.7591018481005 km
    [ap |-> HYD_AT, at |-> OUT_W, d |-> 114074459],  \* 1140.7445943799594 km
    [ap |-> HYD_AT, at |-> OUT_E, d |-> 197966099]   \* 1979.660990547227 km
  }


\* Table airports, as init_db() fills it.
airports ==
  << [code |-> <<"B", "O", "M">>, name |-> "Chhatrapati Shivaji Maharaj Intl", city |-> "Mumbai",
      country |-> "India", lat |-> BOM_AT.lat, lon |-> BOM_AT.lon],
     [code |-> <<"D", "E", "L">>, name |-> "Indira Gandhi Intl", city |-> "Delhi",
      country |-> "India", lat |-> DEL_AT.lat, lon |-> DEL_AT.lon],
     [code |-> <<"B", "L", "R">>, name |-> "Kempegowda Intl", city |-> "Bengaluru",
      country |-> "India", lat |-> BLR_AT.lat, lon |-> BLR_AT.lon],
     [code |-> <<"H", "Y", "D">>, name |-> "Rajiv Gandhi Intl", city |-> "Hyderabad",
      country |-> "India", lat |-> HYD_AT.lat, lon |-> HYD_AT.lon] >>


-----------------------------------------------------------------------------
\* The external collaborators' answers: what a request can find.

\* One state vector of the feed: a tuple indexed from 0, of which the code
\* reads [0], [1], [2], [5], [6], [7], [9] and [10].
state_vector(icao24, callsign, origin_country, lon, lat, baro_altitude, velocity, heading) ==
  [i \in 0..10 |->
     CASE i = 0 -> icao24
       [] i = 1 -> callsign
       [] i = 2 -> origin_country
       [] i = 5 -> lon
       [] i = 6 -> lat
       [] i = 7 -> baro_altitude
       [] i = 9 -> velocity
       [] i = 10 -> heading
       [] OTHER -> Null]

\* The feed's clock: one second before an hour boundary, so that FeedTime0 and
\* FeedTime0 + 1 fall in two hour buckets.
FeedTime0 == 472222 * HOUR_SECONDS - 1

\* What datetime.utcnow() gives a request: on the edge of the 10-minute window
\* of FeedTime0 and one second past it.
NowValues == {FeedTime0 + RECENT_WINDOW, FeedTime0 + RECENT_WINDOW + 1}

\* A snapshot of every kind of state vector: null coordinates, null callsign
\* and numbers, padded and lower-case callsigns, positions on and next to the
\* region's bounds, altitudes on and next to the default limits, and distances
\* of under 30, exactly 30, 40, exactly 100 and over 100 km from BOM and DEL.
MixedStates ==
  << state_vector(1, Some(<<"A", "I", "C", "1", "0", "1", " ", " ">>), "India", Some(BOM_10.lon), Some(BOM_10.lat), Some(1000), Some(200), Some(90)),
     state_vector(2, Some(<<"A", "I", "C", "2">>), "India", Some(BOM_10.lon), Null, Some(1000), Some(200), Some(90)),
     state_vector(3, Some(<<"I", "G", "O", "3">>), "India", Null, Some(BOM_10.lat), Some(1000), Some(200), Some(90)),
     state_vector(4, Some(<<"a", "i", "c", "4">>), "India", Some(BOM_40.lon), Some(BOM_40.lat), Some(10000), Some(250), Some(90)),
     state_vector(5, Null, "India", Some(BOM_30.lon), Some(BOM_30.lat), Null, Null, Null),
     state_vector(6, Some(<<" ", "I", "G", "O", "6">>), "Nepal", Some(SW_CORNER.lon), Some(SW_CORNER.lat), Some(50000), Some(0), Some(360)),
     state_vector(7, Some(<<"A", "I", "C", "7">>), "India", Some(OUT_E.lon), Some(OUT_E.lat), Some(1000), Some(200), Some(90)),
     state_vector(8, Some(<<"I", "G", "O", "8">>), "India", Some(BOM_100.lon), Some(BOM_100.lat), Some(0), Some(0), Some(0)),
     state_vector(9, Some(<<"A", "i", "C", "9">>), "India", Some(BOM_40.lon), Some(BOM_40.lat), Some(10000), Some(250), Some(360)),
     state_vector(10, Some(<<"I", "G", "O", "1", "0">>), "India", Some(BOM_30.lon), Some(BOM_30.lat), Some(10001), Some(250), Some(90)),
     state_vector(11, Some(<<"A", "I", "C", "1", "1">>), "India", Some(BOM_101.lon), Some(BOM_101.lat), Some(50001), Some(250), Some(90)),
     state_vector(12, Some(<<"V", "T", "I", "1", "2">>), "India", Some(NE_CORNER.lon), Some(NE_CORNER.lat), Some(5000), Some(200), Some(180)),
     state_vector(13, Some(<<"V", "T", "I", "1", "3">>), "China", Some(OUT_N.lon), Some(OUT_N.lat), Some(1000), Some(200), Some(90)),
     state_vector(14, Some(<<"V", "T", "I", "1", "4">>), "India", Some(OUT_S.lon), Some(OUT_S.lat), Some(1000), Some(200), Some(90)),
     state_vector(15, Some(<<"V", "T", "I", "1", "5">>), "Oman", Some(OUT_W.lon), Some(OUT_W.lat), Some(1000), Some(200), Some(90)),
     state_vector(16, Some(<<"I", "G", "O", "1", "6">>), "India", Some(DEL_10.lon), Some(DEL_10.lat), Some(1000), Some(200), Some(270)),
     state_vector(17, Some(<<"I", "G", "O", "1", "7">>), "India", Some(DEL_30.lon), Some(DEL_30.lat), Some(1000), Some(200), Some(0)) >>

MixedFeed == [time |-> Some(FeedTime0), states |-> Some(MixedStates)]

\* A response without "time": the code falls back on its own clock.
NoTimeFeed ==
  [time |-> Null,
   states |-> Some(<< state_vector(1, Some(<<"A", "I", "C", "1">>), "India", Some(BOM_10.lon), Some(BOM_10.lat), Some(1000), Some(200), Some(90)) >>)]

\* A response whose "states" is null.
NoStatesFeed == [time |-> Some(FeedTime0 + 1), states |-> Null]

\* A snapshot of n aircraft inside the region at 1000 m, taken at time t.
SizedFeed(n, t) ==
  [time |-> Some(t),
   states |-> Some([i \in 1..n |->
     state_vector(i, Some(<<"A", "I", "C">>), "India", Some(BOM_10.lon), Some(BOM_10.lat), Some(1000), Some(200), Some(90))])]

\* GET /api/flights/live?min_alt=..&max_alt=..&callsign=.. and the feed it finds.
LiveRequest(min_alt, max_alt, callsign, data) ==
  [min_alt |-> min_alt, max_alt |-> max_alt, callsign |-> callsign, data |-> data]

\* Requests on the mixed snapshot: each callsign query under the default
\* altitudes, and a narrower altitude band with and without a callsign.
MixedRequests ==
  { LiveRequest(Null, Null, cs, MixedFeed) :
      cs \in {<<>>, <<"a", "i", "c">>, <<" ", "A", "I", "C", " ">>, <<"I", "G", "O">>} }
  \cup { LiveRequest(Some(1000), Some(10000), cs, MixedFeed) : cs \in {<<>>, <<"a", "i", "c">>} }
  \cup { LiveRequest(Null, Null, <<>>, NoTimeFeed), LiveRequest(Null, Null, <<>>, NoStatesFeed) }

\* Requests on snapshots of 49, 50 and 101 aircraft, at two feed times.
SizedRequests ==
  { LiveRequest(Null, Null, <<>>, SizedFeed(n, t)) :
      n \in {LOW_BELOW - 1, LOW_BELOW, SNAPSHOT_SAMPLE + 1}, t \in {FeedTime0, FeedTime0 + 1} }

\* Rows of earlier ingestion cycles, one per hour over the 23 hours before
\* FeedTime0: the table is a file that outlives the process.
History ==
  [k \in 1..(HOUR_LIMIT - 1) |->
     [icao24 |-> 1, callsign |-> <<"A", "I", "C", "1">>, lat |-> BOM_10.lat, lon |-> BOM_10.lon,
      altitude |-> 1000, velocity |-> 200,
      timestamp |-> FeedTime0 - (HOUR_LIMIT - k) * HOUR_SECONDS]]

\* Airport codes of the weather and traffic routes' URLs.
CodeQueries == {<<"B", "O", "M">>, <<"d", "e", "l">>, <<"X", "X", "X">>, <<"b", "o", "m", " ">>}

\* Weather observations: [weather][0][main], [weather][0][description],
\* [wind][speed], [main][temp].
Observation(main, description, speed, temp) ==
  [main |-> main, description |-> description, speed |-> speed, temp |-> temp]

Observations ==
  { Observation(<<"T", "h", "u", "n", "d", "e", "r", "s", "t", "o", "r", "m">>, <<"t", "h", "u", "n", "d", "e", "r", "s", "t", "o", "r", "m", " ", "w", "i", "t", "h", " ", "r", "a", "i", "n">>, 5, 30),
    Observation(<<"R", "a", "i", "n">>, <<"l", "i", "g", "h", "t", " ", "r", "a", "i", "n">>, 5, 28),
    Observation(<<"R", "a", "i", "n">>, <<"h", "e", "a", "v", "y", " ", "r", "a", "i", "n">>, WIND_HIGH + 1, 28),
    Observation(<<"C", "l", "e", "a", "r">>, <<"c", "l", "e", "a", "r", " ", "s", "k", "y">>, WIND_HIGH + 5, 31),
    Observation(<<"C", "l", "e", "a", "r">>, <<"c", "l", "e", "a", "r", " ", "s", "k", "y">>, WIND_HIGH, 31),
    Observation(<<"C", "l", "e", "a", "r">>, <<"c", "l", "e", "a", "r", " ", "s", "k", "y">>, 5, 31),
    Observation(<<"F", "o", "g">>, <<"f", "o", "g">>, 2, 18),
    Observation(<<"D", "r", "i", "z", "z", "l", "e">>, <<"d", "r", "i", "z", "z", "l", "e", " ", "r", "a", "i", "n">>, 5, 27),
    Observation(<<"L", "i", "g", "h", "t", " ", "R", "a", "i", "n">>, <<"l", "i", "g", "h", "t", " ", "r", "a", "i", "n">>, 5, 28),
    Observation(<<"S", "q", "u", "a", "l", "l">>, <<"s", "t", "o", "r", "m", " ", "s", "q", "u", "a", "l", "l">>, 12, 29) }

\* GET /api/airports/<code>/weather: the code, whether OPENWEATHER_API_KEY is
\* set, and what the provider would answer.  Every code with and without the
\* key, and every observation for a known airport.
WeatherRequests ==
  { [code |-> c, api_key_set |-> k,
     observation |-> Observation(<<"C", "l", "e", "a", "r">>, <<"c", "l", "e", "a", "r", " ", "s", "k", "y">>, 5, 31)] :
      c \in CodeQueries, k \in BOOLEAN }
  \cup { [code |-> <<"B", "O", "M">>, api_key_set |-> TRUE, observation |-> o] : o \in Observations }

-----------------------------------------------------------------------------
\* api_flights_live

\* request.args.get(name, default), as a number
arg_or(arg, default) == IF arg = Null THEN default ELSE arg[1]

\* data.get("states", []) or []
states_of(data) == IF data.states = Null THEN <<>> ELSE data.states[1]

\* flight_of without the .strip() of the callsign
flight_of_unstripped(s, ts) ==
  IF s[6] = Null \/ s[5] = Null
  THEN Null
  ELSE Some([icao24 |-> s[0],
             callsign |-> OrEmpty(s[1]),
             origin_country |-> s[2],
             lat |-> s[6][1],
             lon |-> s[5][1],
             altitude |-> OrZero(s[7]),
             velocity |-> OrZero(s[9]),
             heading |-> OrZero(s[10]),
             timestamp |-> ts])

\* One pass of the loop up to the null check: the flight dict of state vector
\* s, or Null when s has no latitude or no longitude.
flight_of(s, ts) ==
  IF s[6] = Null \/ s[5] = Null
  THEN Null
  ELSE Some([icao24 |-> s[0],
             callsign |-> Strip(OrEmpty(s[1])),
             origin_country |-> s[2],
             lat |-> s[6][1],
             lon |-> s[5][1],
             altitude |-> OrZero(s[7]),
             velocity |-> OrZero(s[9]),
             heading |-> OrZero(s[10]),
             timestamp |-> ts])

\* in_bounds without its last comparison
in_bounds_no_max_lon(lat, lon, bounds) ==
  /\ FxLeq(bounds.min_lat, lat) /\ FxLeq(lat, bounds.max_lat)
  /\ FxLeq(bounds.min_lon, lon)

in_bounds(lat, lon, bounds) ==
  /\ FxLeq(bounds.min_lat, lat) /\ FxLeq(lat, bounds.max_lat)
  /\ FxLeq(bounds.min_lon, lon) /\ FxLeq(lon, bounds.max_lon)

in_altitude(altitude, min_alt, max_alt) == min_alt <= altitude /\ altitude <= max_alt

\* not (callsign_search and callsign_search not in callsign)
callsign_match(callsign_search, callsign) ==
  callsign_search = <<>> \/ Contains(callsign_search, callsign)

\* The list flights after the loop.
live_flights(states, ts, min_alt, max_alt, callsign_search) ==
  LET parsed == [i \in DOMAIN states |-> flight_of(states[i], ts)]
      keep(p) ==
        /\ p # Null
        /\ in_bounds(p[1].lat, p[1].lon, REGION_BOUNDS)
        /\ in_altitude(p[1].altitude, min_alt, max_alt)
        /\ callsign_match(callsign_search, p[1].callsign)
      kept == SelectSeq(parsed, keep)
  IN  [i \in DOMAIN kept |-> kept[i][1]]

\* the sample without its limit
snapshot_sample_all(flights) == flights

\* flights[:100]
snapshot_sample(flights) ==
  SubSeq(flights, 1, IF Len(flights) < SNAPSHOT_SAMPLE THEN Len(flights) ELSE SNAPSHOT_SAMPLE)

\* The row one INSERT adds.
snapshot_row(f) ==
  [icao24 |-> f.icao24, callsign |-> f.callsign, lat |-> f.lat, lon |-> f.lon,
   altitude |-> f.altitude, velocity |-> f.velocity, timestamp |-> f.timestamp]

\* The rows the insert loop adds, in order.
snapshot_rows(flights) ==
  LET sample == snapshot_sample(flights)
  IN  [i \in DOMAIN sample |-> snapshot_row(sample[i])]

\* The response to request r, handled at time now, with the request and the
\* external helper called on the way.
flights_live(r, now) ==
  LET min_alt == arg_or(r.min_alt, DEFAULT_MIN_ALT)
      max_alt == arg_or(r.max_alt, DEFAULT_MAX_ALT)
      callsign_search == Upper(Strip(r.callsign))
      ts == IF r.data.time = Null THEN now ELSE r.data.time[1]
      flights == live_flights(states_of(r.data), ts, min_alt, max_alt, callsign_search)
  IN  [kind |-> "live", status |-> 200, count |-> Len(flights), flights |-> flights,
       called |-> <<"fetch_opensky_states">>, request |-> r]

\* The handler, at its db.commit(): the rows of one request are inserted in one
\* transaction of the request's own connection, and no other connection sees
\* any of them before the commit.
api_flights_live(Requests) ==
  /\ cycles < MaxCycles
  /\ \E r \in Requests, now \in NowValues :
       LET out == flights_live(r, now)
       IN  /\ flight_snapshots' = flight_snapshots \o snapshot_rows(out.flights)
           /\ resp' = out
  /\ cycles' = cycles + 1
  /\ UNCHANGED summary

-----------------------------------------------------------------------------
\* api_stats_summary

\* SELECT COUNT(*) FROM flight_snapshots WHERE timestamp >= ?
count_since(rows, threshold) ==
  Cardinality({i \in DOMAIN rows : rows[i].timestamp >= threshold})

\* congestion_level with the first threshold off by one
congestion_level_upto_50(count_recent) ==
  IF count_recent <= LOW_BELOW THEN "LOW"
  ELSE IF count_recent < MEDIUM_BELOW THEN "MEDIUM"
  ELSE "HIGH"

congestion_level(count_recent) ==
  IF count_recent < LOW_BELOW THEN "LOW"
  ELSE IF count_recent < MEDIUM_BELOW THEN "MEDIUM"
  ELSE "HIGH"

\* timestamp/3600 on an INTEGER column: SQLite's integer division, which
\* truncates toward zero.
hour_bucket(timestamp) ==
  IF timestamp >= 0
  THEN timestamp \div HOUR_SECONDS
  ELSE -((-timestamp) \div HOUR_SECONDS)

RECURSIVE Descending(_)
Descending(S) ==
  IF S = {}
  THEN <<>>
  ELSE LET m == CHOOSE x \in S : \A y \in S : y <= x
       IN  <<m>> \o Descending(S \ {m})

\* flights_per_hour without LIMIT 24
flights_per_hour_unlimited(rows) ==
  LET groups == Descending({hour_bucket(rows[i].timestamp) : i \in DOMAIN rows})
  IN  [k \in DOMAIN groups |->
         [hour |-> groups[k],
          count |-> Cardinality({i \in DOMAIN rows : hour_bucket(rows[i].timestamp) = groups[k]})]]

\* SELECT (timestamp/3600) AS hour_bucket, COUNT(*) ... GROUP BY hour_bucket
\* ORDER BY hour_bucket DESC LIMIT 24, as the list flights_per_hour.
flights_per_hour(rows) ==
  LET groups == Descending({hour_bucket(rows[i].timestamp) : i \in DOMAIN rows})
      limited == SubSeq(groups, 1, IF Len(groups) < HOUR_LIMIT THEN Len(groups) ELSE HOUR_LIMIT)
  IN  [k \in DOMAIN limited |->
         [hour |-> limited[k],
          count |-> Cardinality({i \in DOMAIN rows : hour_bucket(rows[i].timestamp) = limited[k]})]]

Idle == [pc |-> "idle"]

\* The first SELECT and the thresholds.  The connection is in autocommit mode
\* for reads: the SELECT sees the rows committed when it runs.  seen is the
\* number of those rows (rowids only grow, so they are a prefix of the table).
api_stats_summary_count ==
  /\ summary.pc = "idle"
  /\ \E now \in NowValues :
       LET count_recent == count_since(flight_snapshots, now - RECENT_WINDOW)
       IN  summary' = [pc |-> "counted", now |-> now, count_recent |-> count_recent,
                       congestion |-> congestion_level(count_recent),
                       seen |-> Len(flight_snapshots)]
  /\ UNCHANGED <<flight_snapshots, resp, cycles>>

\* The second SELECT, a read of its own, and the response.
api_stats_summary_buckets ==
  /\ summary.pc = "counted"
  /\ resp' = [kind |-> "summary", status |-> 200,
              recent_snapshot_count |-> summary.count_recent,
              congestion_level |-> summary.congestion,
              flights_per_hour |-> flights_per_hour(flight_snapshots),
              now |-> summary.now,
              count_seen |-> summary.seen,
              buckets_seen |-> Len(flight_snapshots)]
  /\ summary' = Idle
  /\ UNCHANGED <<flight_snapshots, cycles>>

-----------------------------------------------------------------------------
\* Airport routes

\* SELECT * FROM airports WHERE code = ?  with code.upper(); fetchone()
find_airport(code) ==
  LET hits == SelectSeq(airports, LAMBDA a : a.code = Upper(code))
  IN  IF hits = <<>> THEN Null ELSE Some(hits[1])

\* fetch_openweather: None without OPENWEATHER_API_KEY, else the observation.
fetch_openweather(api_key_set, observation) ==
  IF api_key_set THEN Some(observation) ELSE Null

\* weather_risk with the wind test off by one
weather_risk_from_15(main_text, wind) ==
  LET main == Lower(main_text)
  IN  IF Contains(<<"s", "t", "o", "r", "m">>, main)
         \/ Contains(<<"t", "h", "u", "n", "d", "e", "r">>, main)
         \/ wind >= WIND_HIGH
      THEN "HIGH"
      ELSE IF Contains(<<"r", "a", "i", "n">>, main) \/ Contains(<<"f", "o", "g">>, main)
      THEN "MODERATE"
      ELSE "LOW"

weather_risk(main_text, wind) ==
  LET main == Lower(main_text)
  IN  IF Contains(<<"s", "t", "o", "r", "m">>, main)
         \/ Contains(<<"t", "h", "u", "n", "d", "e", "r">>, main)
         \/ wind > WIND_HIGH
      THEN "HIGH"
      ELSE IF Contains(<<"r", "a", "i", "n">>, main) \/ Contains(<<"f", "o", "g">>, main)
      THEN "MODERATE"
      ELSE "LOW"

\* The response of api_airport_weather(code).  Beside the JSON body and the
\* status it records the request (code, api_key_set), the external helpers
\* called on the way, and the [main] text the risk was computed from.
airport_weather(code, api_key_set, observation) ==
  LET ap == find_airport(code)
      weather == fetch_openweather(api_key_set, observation)
  IN  IF ap = Null
      THEN [kind |-> "weather", status |-> 404, error |-> "Unknown airport",
            called |-> <<>>, code |-> code, api_key_set |-> api_key_set]
      ELSE IF weather = Null
      THEN [kind |-> "weather", status |-> 500, error |-> "Weather API not configured",
            called |-> <<"fetch_openweather">>, code |-> code, api_key_set |-> api_key_set]
      ELSE [kind |-> "weather", status |-> 200,
            airport |-> ap[1].code, name |-> ap[1].name, city |-> ap[1].city,
            country |-> ap[1].country, temp |-> weather[1].temp,
            condition |-> weather[1].description, wind_speed |-> weather[1].speed,
            risk |-> weather_risk(weather[1].main, weather[1].speed),
            called |-> <<"fetch_openweather">>, code |-> code, api_key_set |-> api_key_set,
            main |-> weather[1].main]

api_airport_weather ==
  /\ \E q \in WeatherRequests :
       resp' = airport_weather(q.code, q.api_key_set, q.observation)
  /\ UNCHANGED <<flight_snapshots, summary, cycles>>

\* haversine(lat1, lon1, lat2, lon2), in units of 10^-5 km
haversine(lat1, lon1, lat2, lon2) ==
  LET e == CHOOSE e \in HaversineTable :
             /\ e.ap.lat = lat1 /\ e.ap.lon = lon1
             /\ e.at.lat = lat2 /\ e.at.lon = lon2
  IN  e.d

\* round(dist, 1), in tenths of a kilometre
round1(dist) == (dist + Km(1) \div 20) \div (Km(1) \div 10)

\* traffic_bucket with the arrivals test off by one double
traffic_bucket_from_30(dist, heading) ==
  IF dist >= Km(NEAR_KM) /\ heading # 0 /\ heading # 360 THEN "arrivals"
  ELSE IF dist < Km(NEAR_KM) THEN "departures"
  ELSE "others"

\* The list a state vector within the radius is appended to.
traffic_bucket(dist, heading) ==
  IF dist > Km(NEAR_KM) /\ heading # 0 /\ heading # 360 THEN "arrivals"
  ELSE IF dist < Km(NEAR_KM) THEN "departures"
  ELSE "others"

\* One pass of the loop: Null when the state vector is skipped, else the
\* bucket and the info dict.
traffic_entry(s, lat0, lon0) ==
  LET callsign == Strip(OrEmpty(s[1]))
      heading == OrZero(s[10])
  IN  IF s[6] = Null \/ s[5] = Null
      THEN Null
      ELSE LET dist == haversine(lat0, lon0, s[6][1], s[5][1])
           IN  IF dist <= Km(TRAFFIC_RADIUS_KM)
               THEN Some([bucket |-> traffic_bucket(dist, heading),
                          info |-> [callsign |-> callsign, lat |-> s[6][1], lon |-> s[5][1],
                                    heading |-> heading, distance_km |-> round1(dist)]])
               ELSE Null

\* airport_traffic with the feed fetched before the airport is looked up
airport_traffic_fetch_first(code, data) ==
  LET ap == find_airport(code)
  IN  IF ap = Null
      THEN [kind |-> "traffic", status |-> 404, error |-> "Unknown airport",
            called |-> <<"fetch_opensky_states">>, code |-> code, data |-> data]
      ELSE LET states == states_of(data)
               entries == [i \in DOMAIN states |-> traffic_entry(states[i], ap[1].lat, ap[1].lon)]
               bucket(b) ==
                 LET in == SelectSeq(entries, LAMBDA e : e # Null /\ e[1].bucket = b)
                 IN  [i \in DOMAIN in |-> in[i][1].info]
           IN  [kind |-> "traffic", status |-> 200,
                airport |-> ap[1].code, name |-> ap[1].name,
                arrivals |-> bucket("arrivals"),
                departures |-> bucket("departures"),
                others |-> bucket("others"),
                called |-> <<"fetch_opensky_states">>, code |-> code, data |-> data]

\* The response of api_airport_traffic(code), with the request (code, data)
\* and the external helpers called on the way.
airport_traffic(code, data) ==
  LET ap == find_airport(code)
  IN  IF ap = Null
      THEN [kind |-> "traffic", status |-> 404, error |-> "Unknown airport",
            called |-> <<>>, code |-> code, data |-> data]
      ELSE LET states == states_of(data)
               entries == [i \in DOMAIN states |-> traffic_entry(states[i], ap[1].lat, ap[1].lon)]
               bucket(b) ==
                 LET in == SelectSeq(entries, LAMBDA e : e # Null /\ e[1].bucket = b)
                 IN  [i \in DOMAIN in |-> in[i][1].info]
           IN  [kind |-> "traffic", status |-> 200,
                airport |-> ap[1].code, name |-> ap[1].name,
                arrivals |-> bucket("arrivals"),
                departures |-> bucket("departures"),
                others |-> bucket("others"),
                called |-> <<"fetch_opensky_states">>, code |-> code, data |-> data]

api_airport_traffic ==
  /\ \E code \in CodeQueries, data \in {MixedFeed, NoTimeFeed, NoStatesFeed} :
       resp' = airport_traffic(code, data)
  /\ UNCHANGED <<flight_snapshots, summary, cycles>>

-----------------------------------------------------------------------------
\* Specifications

\* A new database file: init_db() has created the table, and it is empty.
Init ==
  /\ flight_snapshots = <<>>
  /\ resp = [kind |-> "none"]
  /\ summary = Idle
  /\ cycles = 0

\* The same, or a database file that earlier runs have written to.
InitStore ==
  /\ flight_snapshots \in {<<>>, History}
  /\ resp = [kind |-> "none"]
  /\ summary = Idle
  /\ cycles = 0

\* The live, weather and traffic routes on the mixed snapshot.
Next ==
  \/ api_flights_live(MixedRequests)
  \/ api_airport_weather
  \/ api_airport_traffic

Spec == Init /\ [][Next]_vars

\* Ingestion of whole snapshots, concurrent with the summary route.
NextStore ==
  \/ api_flights_live(SizedRequests)
  \/ api_stats_summary_count
  \/ api_stats_summary_buckets

SpecStore == InitStore /\ [][NextStore]_vars

-----------------------------------------------------------------------------
\* Claims

\* The state vectors of the feed a response's request found.
InputStates(r) == states_of(r.request.data)

\* The limits a live request asked for.
MinAlt(r) == IF r.request.min_alt = Null THEN DEFAULT_MIN_ALT ELSE r.request.min_alt[1]

MaxAlt(r) == IF r.request.max_alt = Null THEN DEFAULT_MAX_ALT ELSE r.request.max_alt[1]

\* The positions in the feed of the state vectors the flights came from
\* (an icao24 occurs once in a snapshot).
SourceIndex(r, j) ==
  CHOOSE i \in DOMAIN InputStates(r) : InputStates(r)[i][0] = r.flights[j].icao24

\* C1: with an empty callsign filter the flights of a live response are a
\* subsequence of the feed's state vectors, in feed order, and each lies
\* inside the region bounds and the altitude limits, all of them inclusive.
C1_FilterSubsequenceInRange ==
  (resp.kind = "live" /\ Strip(resp.request.callsign) = <<>>) =>
    /\ \A j \in DOMAIN resp.flights :
         /\ \E i \in DOMAIN InputStates(resp) :
              /\ InputStates(resp)[i][0] = resp.flights[j].icao24
              /\ InputStates(resp)[i][6] = Some(resp.flights[j].lat)
              /\ InputStates(resp)[i][5] = Some(resp.flights[j].lon)
         /\ FxLeq(Deg(5), resp.flights[j].lat) /\ FxLeq(resp.flights[j].lat, Deg(35))
         /\ FxLeq(Deg(68), resp.flights[j].lon) /\ FxLeq(resp.flights[j].lon, Deg(97))
         /\ MinAlt(resp) <= resp.flights[j].altitude
         /\ resp.flights[j].altitude <= MaxAlt(resp)
    /\ \A j, k \in DOMAIN resp.flights :
         j < k => SourceIndex(resp, j) < SourceIndex(resp, k)

\* C1 witness: a narrowed altitude band returns the aircraft at its lower
\* limit, at its upper limit and on the region's north-east corner.
C1_Witness ==
  /\ resp.kind = "live"
  /\ resp.request.callsign = <<>>
  /\ resp.request.min_alt = Some(1000)
  /\ \E j \in DOMAIN resp.flights : resp.flights[j].altitude = MinAlt(resp)
  /\ \E j \in DOMAIN resp.flights : resp.flights[j].altitude = MaxAlt(resp)
  /\ \E j \in DOMAIN resp.flights :
       resp.flights[j].lat = Deg(35) /\ resp.flights[j].lon = Deg(97)

\* Whether state vector s passes the bounds and altitude predicates of the
\* request of response r.
PassesBoundsAndAltitude(r, s) ==
  /\ s[6] # Null /\ s[5] # Null
  /\ FxLeq(Deg(5), s[6][1]) /\ FxLeq(s[6][1], Deg(35))
  /\ FxLeq(Deg(68), s[5][1]) /\ FxLeq(s[5][1], Deg(97))
  /\ MinAlt(r) <= OrZero(s[7]) /\ OrZero(s[7]) <= MaxAlt(r)

\* C6: with a non-empty callsign filter, a state vector that passes the bounds
\* and altitude predicates is returned exactly when its callsign contains the
\* filter, both compared without regard to letter case.
C6_CallsignCaseInsensitive ==
  (resp.kind = "live" /\ Strip(resp.request.callsign) # <<>>) =>
    \A i \in DOMAIN InputStates(resp) :
      PassesBoundsAndAltitude(resp, InputStates(resp)[i]) =>
        ( (\E j \in DOMAIN resp.flights : resp.flights[j].icao24 = InputStates(resp)[i][0])
          <=> Contains(Upper(Strip(resp.request.callsign)),
                       Upper(Strip(OrEmpty(InputStates(resp)[i][1])))) )

NullCoordinates(s) == s[6] = Null \/ s[5] = Null

Trimmed(str) == str = <<>> \/ (str[1] # " " /\ str[Len(str)] # " ")

\* Every feed a request of Spec can find.
SpecFeeds == {MixedFeed, NoTimeFeed, NoStatesFeed}

\* The entries of the three lists of a traffic response.
TrafficEntries(r) == r.arrivals \o r.departures \o r.others

\* C10: a state vector gives no record exactly when its latitude or longitude
\* is null, silently: the others are still handled, and it is in no live
\* list, no table row and no traffic list.  Any other state vector gives a
\* record with the callsign trimmed (null becomes ""), altitude, velocity and
\* heading as reported with 0 for a missing value, and the feed's time as the
\* timestamp, one value for the whole snapshot.
C10_ParseDropsNullCoordinates ==
  /\ resp.kind = "live" =>
       /\ \A i \in DOMAIN InputStates(resp) :
            /\ NullCoordinates(InputStates(resp)[i]) =>
                 ~ \E j \in DOMAIN resp.flights :
                     resp.flights[j].icao24 = InputStates(resp)[i][0]
            /\ ( /\ ~ NullCoordinates(InputStates(resp)[i])
                 /\ Strip(resp.request.callsign) = <<>>
                 /\ PassesBoundsAndAltitude(resp, InputStates(resp)[i]) ) =>
                 \E j \in DOMAIN resp.flights :
                   resp.flights[j].icao24 = InputStates(resp)[i][0]
       /\ \A j \in DOMAIN resp.flights :
            /\ Trimmed(resp.flights[j].callsign)
            /\ \E i \in DOMAIN InputStates(resp) :
                 /\ InputStates(resp)[i][0] = resp.flights[j].icao24
                 /\ ~ NullCoordinates(InputStates(resp)[i])
                 /\ resp.flights[j].callsign = Strip(OrEmpty(InputStates(resp)[i][1]))
                 /\ resp.flights[j].altitude =
                      (IF InputStates(resp)[i][7] = Null THEN 0 ELSE InputStates(resp)[i][7][1])
                 /\ resp.flights[j].velocity =
                      (IF InputStates(resp)[i][9] = Null THEN 0 ELSE InputStates(resp)[i][9][1])
                 /\ resp.flights[j].heading =
                      (IF InputStates(resp)[i][10] = Null THEN 0 ELSE InputStates(resp)[i][10][1])
            /\ resp.request.data.time # Null =>
                 resp.flights[j].timestamp = resp.request.data.time[1]
            /\ resp.flights[j].timestamp = resp.flights[1].timestamp
  /\ \A k \in DOMAIN flight_snapshots :
       ~ \E d \in SpecFeeds : \E i \in DOMAIN states_of(d) :
           /\ NullCoordinates(states_of(d)[i])
           /\ flight_snapshots[k].icao24 = states_of(d)[i][0]
           /\ flight_snapshots[k].callsign = Strip(OrEmpty(states_of(d)[i][1]))
  /\ (resp.kind = "traffic" /\ resp.status = 200) =>
       \A e \in DOMAIN TrafficEntries(resp) :
         /\ Trimmed(TrafficEntries(resp)[e].callsign)
         /\ \E i \in DOMAIN states_of(resp.data) :
              /\ ~ NullCoordinates(states_of(resp.data)[i])
              /\ TrafficEntries(resp)[e].callsign = Strip(OrEmpty(states_of(resp.data)[i][1]))
              /\ TrafficEntries(resp)[e].lat = states_of(resp.data)[i][6][1]
              /\ TrafficEntries(resp)[e].lon = states_of(resp.data)[i][5][1]
              /\ TrafficEntries(resp)[e].heading =
                   (IF states_of(resp.data)[i][10] = Null THEN 0 ELSE states_of(resp.data)[i][10][1])
         /\ ~ \E i \in DOMAIN states_of(resp.data) :
              /\ NullCoordinates(states_of(resp.data)[i])
              /\ TrafficEntries(resp)[e].callsign = Strip(OrEmpty(states_of(resp.data)[i][1]))

\* C10 witness: a live response on the mixed snapshot, whose 2nd and 3rd
\* state vectors have a null coordinate, holds the padded callsign trimmed
\* and the vector of nulls as "", 0, 0, 0, and the rows are in the table.
C10_Witness ==
  /\ resp.kind = "live"
  /\ resp.request.data = MixedFeed
  /\ \E j \in DOMAIN resp.flights :
       resp.flights[j].icao24 = 1 /\ resp.flights[j].callsign = <<"A", "I", "C", "1", "0", "1">>
  /\ \E j \in DOMAIN resp.flights :
       /\ resp.flights[j].icao24 = 5 /\ resp.flights[j].callsign = <<>>
       /\ resp.flights[j].altitude = 0 /\ resp.flights[j].velocity = 0
       /\ resp.flights[j].heading = 0
  /\ \E j \in DOMAIN resp.flights : resp.flights[j].icao24 = 4
  /\ Len(flight_snapshots) >= Len(resp.flights)
  /\ Len(resp.flights) > 2

\* How often state vector s occurs in one list of a traffic response.
Occurrences(list, s) ==
  Cardinality({e \in DOMAIN list :
                 /\ list[e].callsign = Strip(OrEmpty(s[1]))
                 /\ list[e].lat = s[6][1]
                 /\ list[e].lon = s[5][1]})

\* The row of table airports a traffic response names.
AirportOf(r) == CHOOSE i \in DOMAIN airports : airports[i].code = r.airport

\* C5: for a known airport, a state vector with coordinates is in at most one
\* of arrivals, departures and others: in none when dist > 100; else in
\* arrivals iff dist > 30 and heading is neither 0 nor 360, in departures iff
\* dist < 30, and in others otherwise (dist = 30 whatever the heading, and
\* 30 < dist <= 100 with heading 0, 360 or missing).
C5_TrafficBuckets ==
  (resp.kind = "traffic" /\ resp.status = 200) =>
    \A i \in DOMAIN states_of(resp.data) :
      ~ NullCoordinates(states_of(resp.data)[i]) =>
        LET s == states_of(resp.data)[i]
            ap == airports[AirportOf(resp)]
            dist == haversine(ap.lat, ap.lon, s[6][1], s[5][1])
            heading == IF s[10] = Null THEN 0 ELSE s[10][1]
            arr == Occurrences(resp.arrivals, s)
            dep == Occurrences(resp.departures, s)
            oth == Occurrences(resp.others, s)
        IN  /\ arr + dep + oth <= 1
            /\ dist > Km(100) => arr + dep + oth = 0
            /\ dist <= Km(100) =>
                 /\ arr + dep + oth = 1
                 /\ arr = 1 <=> (dist > Km(30) /\ heading # 0 /\ heading # 360)
                 /\ dep = 1 <=> dist < Km(30)
                 /\ oth = 1 <=> ( \/ dist = Km(30)
                                  \/ (dist > Km(30) /\ heading \in {0, 360}) )

\* C5 witness: around BOM, the aircraft at exactly 30 km with heading 90 and
\* the one at 40 km with heading 360 are in others, the one at 40 km with
\* heading 90 in arrivals, the one at 10 km in departures, and the one at
\* exactly 100 km is kept while the one at 101 km is in no list.
C5_Witness ==
  /\ resp.kind = "traffic" /\ resp.status = 200
  /\ resp.airport = <<"B", "O", "M">>
  /\ \E e \in DOMAIN resp.others :
       resp.others[e].callsign = <<"I", "G", "O", "1", "0">> /\ resp.others[e].heading = 90
  /\ \E e \in DOMAIN resp.others :
       resp.others[e].callsign = <<"A", "i", "C", "9">> /\ resp.others[e].heading = 360
  /\ \E e \in DOMAIN resp.others : resp.others[e].callsign = <<"I", "G", "O", "8">>
  /\ \E e \in DOMAIN resp.arrivals : resp.arrivals[e].callsign = <<"a", "i", "c", "4">>
  /\ \E e \in DOMAIN resp.departures :
       resp.departures[e].callsign = <<"A", "I", "C", "1", "0", "1">>
  /\ ~ \E e \in DOMAIN TrafficEntries(resp) :
         TrafficEntries(resp)[e].callsign = <<"A", "I", "C", "1", "1">>

\* Whether the airports table has a row for the code of a URL.
KnownAirport(code) == \E i \in DOMAIN airports : airports[i].code = Upper(code)

\* One step that answers a weather or traffic query.
C8_Step ==
  resp'.kind \in {"weather", "traffic"} =>
    /\ ~ KnownAirport(resp'.code) =>
         /\ resp'.status = 404 /\ resp'.error = "Unknown airport"
         /\ resp'.called = <<>>
         /\ DOMAIN resp' \cap {"arrivals", "departures", "others", "risk", "temp",
                               "condition", "wind_speed"} = {}
         /\ flight_snapshots' = flight_snapshots
    /\ KnownAirport(resp'.code) => resp'.status # 404
    /\ (resp'.kind = "weather" /\ resp'.status = 500) =>
         /\ KnownAirport(resp'.code) /\ ~ resp'.api_key_set
         /\ resp'.error = "Weather API not configured"
         /\ resp'.error # "Unknown airport"

\* C8: a weather or traffic query for a code the airports table does not hold
\* ends in NotFound (404), before any feed or weather fetch, with no result
\* and the table unchanged; Unconfigured (500) is answered only for a known
\* airport when no weather provider is configured, and is not the NotFound
\* answer.
C8_UnknownAirportNotFound == [][C8_Step]_vars

\* C8 witness: NotFound for code XXX after rows have been stored.
C8_Witness ==
  /\ resp.kind = "traffic" /\ resp.status = 404
  /\ resp.code = <<"X", "X", "X">>
  /\ resp.data = MixedFeed
  /\ Len(flight_snapshots) > 0

\* C9: the risk is HIGH if the text, lower-cased, contains "storm" or
\* "thunder" or the wind is above 15; else MODERATE if it contains "rain" or
\* "fog"; else LOW.
C9_WeatherRisk ==
  (resp.kind = "weather" /\ resp.status = 200) =>
    LET text == Lower(resp.main)
        high == \/ Contains(<<"s", "t", "o", "r", "m">>, text)
                \/ Contains(<<"t", "h", "u", "n", "d", "e", "r">>, text)
                \/ resp.wind_speed > 15
        moderate == \/ Contains(<<"r", "a", "i", "n">>, text)
                    \/ Contains(<<"f", "o", "g">>, text)
    IN  /\ high => resp.risk = "HIGH"
        /\ (~ high /\ moderate) => resp.risk = "MODERATE"
        /\ (~ high /\ ~ moderate) => resp.risk = "LOW"

\* C9 witness: "Rain" with wind 16 is HIGH, the wind rule before the rain rule.
C9_Witness ==
  /\ resp.kind = "weather" /\ resp.status = 200
  /\ resp.main = <<"R", "a", "i", "n">>
  /\ resp.wind_speed = 16
  /\ resp.risk = "HIGH"

\* The smaller of two numbers.
Min(a, b) == IF a < b THEN a ELSE b

\* One ingestion cycle.
C2_Step ==
  cycles' = cycles + 1 =>
    /\ resp'.kind = "live"
    /\ resp'.count = Len(resp'.flights)
    /\ Len(flight_snapshots') = Len(flight_snapshots) + Min(Len(resp'.flights), 100)
    /\ \A k \in DOMAIN flight_snapshots : flight_snapshots'[k] = flight_snapshots[k]
    /\ \A k \in 1..Min(Len(resp'.flights), 100) :
         /\ flight_snapshots'[Len(flight_snapshots) + k].icao24 = resp'.flights[k].icao24
         /\ flight_snapshots'[Len(flight_snapshots) + k].callsign = resp'.flights[k].callsign
         /\ flight_snapshots'[Len(flight_snapshots) + k].lat = resp'.flights[k].lat
         /\ flight_snapshots'[Len(flight_snapshots) + k].lon = resp'.flights[k].lon
         /\ flight_snapshots'[Len(flight_snapshots) + k].altitude = resp'.flights[k].altitude
         /\ flight_snapshots'[Len(flight_snapshots) + k].velocity = resp'.flights[k].velocity
         /\ flight_snapshots'[Len(flight_snapshots) + k].timestamp = resp'.flights[k].timestamp

\* C2: each ingestion cycle appends to the table exactly the first min(n, 100)
\* flights of its filtered list of n, in order, changes and removes no row,
\* and reports count n; no other step changes the table.
C2_AppendFirstHundred ==
  [][C2_Step /\ (cycles' = cycles => flight_snapshots' = flight_snapshots)]_vars

\* C2 witness: two cycles of 101 flights each from an empty table leave 200
\* rows, and the last response counts 101.
C2_Witness ==
  /\ resp.kind = "live"
  /\ resp.count = 101
  /\ cycles = 2
  /\ Len(flight_snapshots) = 200

\* C3: a summary observes all or none of a concurrent append: its
\* recent_snapshot_count is the count over the very table state its
\* flights_per_hour buckets were computed from.
C3_SummaryFromOneState ==
  resp.kind = "summary" =>
    resp.recent_snapshot_count =
      Cardinality({i \in 1..resp.buckets_seen :
                     flight_snapshots[i].timestamp >= resp.now - 600})

\* C4: recent is the number of rows with timestamp >= now - 600, and the
\* level is LOW iff recent < 50, MEDIUM iff 50 <= recent < 150, HIGH iff
\* recent >= 150.
C4_CongestionThresholds ==
  resp.kind = "summary" =>
    LET recent == Cardinality({i \in 1..resp.count_seen :
                                 flight_snapshots[i].timestamp >= resp.now - 600})
    IN  /\ resp.recent_snapshot_count = recent
        /\ resp.congestion_level = "LOW" <=> recent < 50
        /\ resp.congestion_level = "MEDIUM" <=> (50 <= recent /\ recent < 150)
        /\ resp.congestion_level = "HIGH" <=> recent >= 150
        /\ resp.congestion_level \in {"LOW", "MEDIUM", "HIGH"}

\* C4 witness: exactly 150 recent rows, among more rows, are HIGH.
C4_Witness ==
  /\ resp.kind = "summary"
  /\ resp.recent_snapshot_count = 150
  /\ resp.congestion_level = "HIGH"
  /\ resp.count_seen > 150

RECURSIVE SumCounts(_)
SumCounts(buckets) ==
  IF buckets = <<>> THEN 0 ELSE Head(buckets).count + SumCounts(Tail(buckets))

\* The hours, floor(timestamp / 3600), of the rows a SELECT saw.
HoursSeen(n) == {flight_snapshots[i].timestamp \div 3600 : i \in 1..n}

\* C7: flights_per_hour has one element per hour of the stored rows, with the
\* number of rows of that hour, in strictly descending order of hour, cut to
\* the 24 greatest hours: at most 24 elements, no hour twice, and counts that
\* sum to at most the number of rows, and to it when there are at most 24
\* hours.
C7_HourlyBuckets ==
  resp.kind = "summary" =>
    LET fph == resp.flights_per_hour
        n == resp.buckets_seen
        hours == HoursSeen(n)
    IN  /\ Len(fph) = Min(Cardinality(hours), 24)
        /\ Len(fph) <= 24
        /\ \A k \in DOMAIN fph :
             /\ fph[k].hour \in hours
             /\ fph[k].count =
                  Cardinality({i \in 1..n : flight_snapshots[i].timestamp \div 3600 = fph[k].hour})
             /\ k < Len(fph) => fph[k].hour > fph[k + 1].hour
        /\ \A h \in hours :
             (\E k \in DOMAIN fph : fph[k].hour = h)
             \/ (\A k \in DOMAIN fph : h < fph[k].hour)
        /\ SumCounts(fph) <= n
        /\ Cardinality(hours) <= 24 => SumCounts(fph) = n

\* C7 witness: rows of 25 hours give 24 buckets, the oldest hour left out.
C7_Witness ==
  /\ resp.kind = "summary"
  /\ Cardinality(HoursSeen(resp.buckets_seen)) = 25
  /\ Len(resp.flights_per_hour) = 24
  /\ SumCounts(resp.flights_per_hour) < resp.buckets_seen

=============================================================================
